---- MODULE Spec2Model ----
(***************************************************************************)
(* Verification model of the rotated-crop terrain pipeline of CFD-dataset  *)
(* (src/dem_processing/dem_processor_original.py, geo_utils.py,            *)
(* meta_data_process.py).                                                  *)
(*                                                                         *)
(* Arithmetic.  Projected coordinates are exact reals restricted to the    *)
(* integers; the crop side is 2*sqrt(n) for an integer n (HalfSq), so the  *)
(* half side is sqrt(n) and the expansion buffer is sqrt(2n).  Every       *)
(* comparison the code makes is then decided exactly with integer squares. *)
(* Rotations are the angles whose sine and cosine are s/sqrt(d), c/sqrt(d) *)
(* for small integers.  Where the code's floating-point trigonometry is    *)
(* inexact (every angle but rotation_deg = 90) a point lying exactly on    *)
(* the footprint boundary may round to either side; the flag `tie` of the  *)
(* crop input is that outcome.  The raster band is floating point.         *)
(***************************************************************************)
EXTENDS Integers, Sequences, FiniteSets, TLC

(* ------------------------------ bounds -------------------------------- *)
RasterW == 6
RasterH == 6
MaxHalfSq == 8
CenterPad == 4
MaxRes == 2

(* --------------------------- small helpers ---------------------------- *)
Abs(x) == IF x < 0 THEN -x ELSE x
Max2(a, b) == IF a >= b THEN a ELSE b
Min2(a, b) == IF a <= b THEN a ELSE b
\* floor(sqrt(m)) and ceil(sqrt(m)) for m >= 0
FloorSqrt(m) == CHOOSE k \in 0..m : k * k <= m /\ (k + 1) * (k + 1) > m
CeilSqrt(m) == CHOOSE k \in 0..m : k * k >= m /\ (k = 0 \/ (k - 1) * (k - 1) < m)

(* ------------------- create_rotated_crop_mask ------------------------- *)
\* The rotations of the model.  53 and 37 stand for the 3-4-5 angles
\* 90 - atan(3/4) and 90 - atan(4/3) degrees.
Rotations == {0, 45, 90, 135, 180, 225, 270, 315, 53, 37}

\* cos(-rotation_rad), sin(-rotation_rad) with rotation_rad = deg2rad(rotation_deg - 90),
\* as c/sqrt(d), s/sqrt(d); exact says whether the floating-point values are exact.
Trig(rotation_deg) ==
    CASE rotation_deg = 90  -> [c |-> 1,  s |-> 0,  d |-> 1,  exact |-> TRUE]
      [] rotation_deg = 0   -> [c |-> 0,  s |-> 1,  d |-> 1,  exact |-> FALSE]
      [] rotation_deg = 180 -> [c |-> 0,  s |-> -1, d |-> 1,  exact |-> FALSE]
      [] rotation_deg = 270 -> [c |-> -1, s |-> 0,  d |-> 1,  exact |-> FALSE]
      [] rotation_deg = 45  -> [c |-> 1,  s |-> 1,  d |-> 2,  exact |-> FALSE]
      [] rotation_deg = 135 -> [c |-> 1,  s |-> -1, d |-> 2,  exact |-> FALSE]
      [] rotation_deg = 225 -> [c |-> -1, s |-> -1, d |-> 2,  exact |-> FALSE]
      [] rotation_deg = 315 -> [c |-> -1, s |-> 1,  d |-> 2,  exact |-> FALSE]
      [] rotation_deg = 53  -> [c |-> 4,  s |-> 3,  d |-> 25, exact |-> FALSE]
      [] rotation_deg = 37  -> [c |-> 3,  s |-> 4,  d |-> 25, exact |-> FALSE]

\* the comparison of line 36 written with < instead of <=
WithinHalf_strict(v, d, n, exact, tie) == v * v < d * n

\* the comparison of line 36 for a rotation whose cos and sin are not
\* normalised: |v| <= sqrt(n)
WithinHalf_scaled(v, d, n, exact, tie) == v * v <= n

\* |v / sqrt(d)| <= sqrt(n), the comparison of line 36 for one rotated coordinate
WithinHalf(v, d, n, exact, tie) ==
    IF v * v < d * n THEN TRUE
    ELSE IF v * v > d * n THEN FALSE
    ELSE exact \/ tie

\* mask value for one point with center-relative coordinates (rel_x, rel_y)
create_rotated_crop_mask(rel_x, rel_y, n, rotation_deg, tie) ==
    LET t == Trig(rotation_deg)
        rotated_x == rel_x * t.c - rel_y * t.s
        rotated_y == rel_x * t.s + rel_y * t.c
    IN  WithinHalf(rotated_x, t.d, n, t.exact, tie)
        /\ WithinHalf(rotated_y, t.d, n, t.exact, tie)

(* ------------------- crop_dem_around_point_rotated -------------------- *)
\* int((D + sgn*sqrt(2n)) / res): Python's int() truncates toward zero
ToPx(D, sgn, n, res) ==
    LET fl == IF sgn > 0 THEN D + FloorSqrt(2 * n) ELSE D - CeilSqrt(2 * n)
        ce == IF sgn > 0 THEN D + CeilSqrt(2 * n) ELSE D - FloorSqrt(2 * n)
    IN  IF fl >= 0 THEN fl \div res ELSE -((-ce) \div res)

\* The raster: bounds.left = 0, bounds.bottom = 0, bounds.top = RasterH * res,
\* RasterW x RasterH square pixels of size res.
RasterTop(res) == RasterH * res

\* Elevation samples: nan marks NaN, nodata marks the raster's no-data sentinel
NaNCell == [nan |-> TRUE, nodata |-> FALSE, z |-> 0]
Patterns == {"valid", "sentinel", "nan", "mixed", "nonpos"}
RasterCell(pattern, row, col) ==
    CASE pattern = "valid"    -> [nan |-> FALSE, nodata |-> FALSE, z |-> 10 + 2 * row + col]
      [] pattern = "sentinel" -> [nan |-> FALSE, nodata |-> TRUE, z |-> -9999]
      [] pattern = "nan"      -> NaNCell
      [] pattern = "nonpos"   -> [nan |-> FALSE, nodata |-> FALSE, z |-> row - col]
      [] pattern = "mixed"    ->
            IF (row + col) % 3 = 0 THEN [nan |-> FALSE, nodata |-> TRUE, z |-> -9999]
            ELSE IF (row + col) % 3 = 1 THEN NaNCell
            ELSE [nan |-> FALSE, nodata |-> FALSE, z |-> 10 + 2 * row + col]

\* lines 75-84: the pixel window after the clamping of lines 81-84
ClampedWindow(g) ==
    LET left_px   == ToPx(g.cx, -1, g.n, g.res)
        right_px  == ToPx(g.cx, 1, g.n, g.res)
        bottom_px == ToPx(RasterTop(g.res) - g.cy, -1, g.n, g.res)
        top_px    == ToPx(RasterTop(g.res) - g.cy, 1, g.n, g.res)
    IN  [left_px   |-> Max2(0, left_px),
         right_px  |-> Min2(RasterW, right_px),
         bottom_px |-> Max2(0, bottom_px),
         top_px    |-> Min2(RasterH, top_px)]

\* projected coordinate the code assigns to raster pixel (row, col): lines 96-106
PixelX(g, col) == col * g.res
PixelY(g, row) == RasterTop(g.res) - row * g.res

NoGrid == <<>>

\* lines 59-118 for an already projected raster
CropWindow(g) ==
    LET w == ClampedWindow(g)
        nrows == Max2(w.top_px - w.bottom_px, 0)
        ncols == Max2(w.right_px - w.left_px, 0)
        cells == (0..(nrows - 1)) \X (0..(ncols - 1))
        crop_mask == [p \in cells |->
                        create_rotated_crop_mask(PixelX(g, w.left_px + p[2]) - g.cx,
                                                 PixelY(g, w.bottom_px + p[1]) - g.cy,
                                                 g.n, g.rotation_deg, g.tie)]
        cropped_data == [p \in cells |->
                        IF crop_mask[p]
                        THEN RasterCell(g.pattern, w.bottom_px + p[1], w.left_px + p[2])
                        ELSE NaNCell]
    IN  IF w.top_px < 0 \/ w.right_px < 0
        THEN [status |-> "WindowError", window |-> w, nrows |-> 0, ncols |-> 0,
              crop_mask |-> NoGrid, data |-> NoGrid]
        ELSE IF nrows * ncols = 0
        THEN [status |-> "EmptyWindow", window |-> w, nrows |-> nrows, ncols |-> ncols,
              crop_mask |-> NoGrid, data |-> NoGrid]
        ELSE [status |-> "ok", window |-> w, nrows |-> nrows, ncols |-> ncols,
              crop_mask |-> crop_mask, data |-> cropped_data]

(* --------------------- NoiseSmoothing and meshing --------------------- *)
Cells(nrows, ncols) == (0..(nrows - 1)) \X (0..(ncols - 1))
ValidCells(data) == {p \in DOMAIN data : ~data[p].nan}

\* row-major position k of a grid with ncols columns
CellAt(k, ncols) == <<k \div ncols, k % ncols>>

\* sum of f over the cells at row-major positions 0..k
RECURSIVE SumCells(_, _, _)
SumCells(f, ncols, k) ==
    IF k < 0 THEN 0 ELSE f[CellAt(k, ncols)] + SumCells(f, ncols, k - 1)

\* index reflection of scipy's default boundary mode
Reflect(i, len) == IF i < 0 THEN 0 ELSE IF i >= len THEN len - 1 ELSE i

\* one term of the 3x3 binomial kernel (weights 1-2-1 on each axis)
KernelTerm(temp, p, dr, dc, nrows, ncols) ==
    (2 - Abs(dr)) * (2 - Abs(dc))
    * temp[<<Reflect(p[1] + dr, nrows), Reflect(p[2] + dc, ncols)>>]

\* gaussian_filter, as a normalised 3x3 binomial kernel
gaussian_filter(temp, nrows, ncols) ==
    [p \in Cells(nrows, ncols) |->
        ( KernelTerm(temp, p, -1, -1, nrows, ncols) + KernelTerm(temp, p, -1, 0, nrows, ncols)
        + KernelTerm(temp, p, -1, 1, nrows, ncols) + KernelTerm(temp, p, 0, -1, nrows, ncols)
        + KernelTerm(temp, p, 0, 0, nrows, ncols) + KernelTerm(temp, p, 0, 1, nrows, ncols)
        + KernelTerm(temp, p, 1, -1, nrows, ncols) + KernelTerm(temp, p, 1, 0, nrows, ncols)
        + KernelTerm(temp, p, 1, 1, nrows, ncols) ) \div 16]

\* np.mean of the valid samples (integer part)
MeanValid(elevation_data, nrows, ncols) ==
    SumCells([p \in DOMAIN elevation_data |->
                 IF elevation_data[p].nan THEN 0 ELSE elevation_data[p].z],
             ncols, nrows * ncols - 1)
    \div Cardinality(ValidCells(elevation_data))

\* lines 279-307 with preserve_nan=True
smooth_terrain_for_cfd(elevation_data, nrows, ncols) ==
    IF ValidCells(elevation_data) = {} THEN elevation_data
    ELSE LET mean == MeanValid(elevation_data, nrows, ncols)
             temp_array == [p \in DOMAIN elevation_data |->
                              IF elevation_data[p].nan THEN mean ELSE elevation_data[p].z]
             smoothed_temp == gaussian_filter(temp_array, nrows, ncols)
         IN  [p \in DOMAIN elevation_data |->
                IF elevation_data[p].nan THEN elevation_data[p]
                ELSE [elevation_data[p] EXCEPT !.z = smoothed_temp[p]]]

\* the points recentred on the middle of the valid cells' extent
MeshPoints_masked(elevation_data, nrows, ncols, res) ==
    LET valid == {p \in DOMAIN elevation_data : ~elevation_data[p].nan}
        rows == {p[1] : p \in valid}
        cols == {p[2] : p \in valid}
        lo(S) == CHOOSE a \in S : \A c \in S : a <= c
        hi(S) == CHOOSE a \in S : \A c \in S : a >= c
    IN  {[row |-> p[1], col |-> p[2],
          x2 |-> 2 * p[2] * res - res * (lo(cols) + hi(cols)),
          y2 |-> 2 * p[1] * res - res * (lo(rows) + hi(rows)),
          z |-> elevation_data[p].z, nodata |-> elevation_data[p].nodata]
            : p \in valid}

\* lines 135-170: one point per non-NaN cell; x2, y2 are twice the mesh-local
\* coordinates (the mean of arange(k)*w is w*(k-1)/2)
MeshPoints(elevation_data, nrows, ncols, res) ==
    {[row |-> p[1], col |-> p[2],
      x2 |-> 2 * p[2] * res - res * (ncols - 1),
      y2 |-> 2 * p[1] * res - res * (nrows - 1),
      z |-> elevation_data[p].z, nodata |-> elevation_data[p].nodata]
        : p \in ValidCells(elevation_data)}

\* scipy.spatial.Delaunay rejects fewer than three points and collinear input
Degenerate(points) ==
    \/ Cardinality(points) < 3
    \/ \A a, b, c \in points :
          (b.x2 - a.x2) * (c.y2 - a.y2) = (b.y2 - a.y2) * (c.x2 - a.x2)

\* lines 120-201: the error raised, or "ok"
create_mesh_from_dem(elevation_data, nrows, ncols, res) ==
    LET points == MeshPoints(elevation_data, nrows, ncols, res)
    IN  IF points = {} THEN [status |-> "NoValidData", points |-> {}]
        ELSE IF Degenerate(points) THEN [status |-> "QhullError", points |-> {}]
        ELSE [status |-> "ok", points |-> points]

(* ------------------------------- paths -------------------------------- *)
\* A path is a sequence of tokens; ".tif" and ".stl" occur only as whole tokens,
\* so str.replace and os.path.splitext act token by token.
DirTokens == {"data/", "out/", "/"}
ExtTokens == {".tif", ".vrt", ".stl", ".json"}
Front(p) == SubSeq(p, 1, Len(p) - 1)
Last(p) == p[Len(p)]

RECURSIVE Replace(_, _, _)
Replace(p, old, new) ==
    IF p = <<>> THEN <<>>
    ELSE (IF Head(p) = old THEN new ELSE <<Head(p)>>) \o Replace(Tail(p), old, new)

RECURSIVE Dirname(_)
Dirname(p) == IF p = <<>> THEN <<>>
              ELSE IF Last(p) \in DirTokens THEN p ELSE Dirname(Front(p))

\* os.path.splitext(p)[0]
SplitextBase(p) == IF p # <<>> /\ Last(p) \in ExtTokens THEN Front(p) ELSE p

\* line 227: dem_path.replace('.tif', '_utm.tif')
UtmPathSaved(dem_path) == Replace(dem_path, ".tif", <<"_utm", ".tif">>)
\* geo_utils.py lines 54-57: f"{base_name}_utm.tif"
UtmPathDefault(input_path) == SplitextBase(input_path) \o <<"_utm", ".tif">>
\* line 383 and line 385
RawStlPath(folder, rotation_deg) ==
    folder \o <<"original_crop_km_", ToString(rotation_deg), "deg", ".stl">>
AlignedStlPath(folder) == folder \o <<"terrain", ".stl">>
\* meta_data_process.py lines 46 and 58
MetadataPath(output_stl) == Replace(output_stl, ".stl", <<"_metadata", ".json">>)

DemPaths == { <<"data/", "site", ".tif">>,
              <<"data/", "site", "_utm", ".tif">>,
              <<"data/", "site", ".vrt">> }
OutFolders == { <<"out/">>, <<"out/", "run", ".stl", "/">> }

(* ------------------------------- state -------------------------------- *)
VARIABLES
    pc,             \* position of the current invocation in the pipeline
    inv,            \* arguments of the current invocation
    fs,             \* the files on disk: path -> kind of content
    log,            \* steps run and files written by the current invocation, in order
    utm_dem_path,   \* the raster path handed to the crop step
    depth,          \* recursion depth of crop_dem_around_point_rotated
    crop_in,        \* geometry of the crop: center, size, rotation, raster content
    crop_out,       \* result of the window computation
    elevation_data, \* the cropped (and smoothed) elevation grid
    mesh,           \* the point cloud of the mesh built
    error           \* the exception that ended the invocation, or "none"

vars == <<pc, inv, fs, log, utm_dem_path, depth, crop_in, crop_out,
          elevation_data, mesh, error>>

RasterKinds == {"EPSG:4326", "geographic", "projected"}
IOOutcomes == {"ok", "fail_before", "fail_partial"}
MaxCropDepth == 3
OrchRotations == {45, 90}
OrchHalfSq == {2, 5}

NoInv == [entry |-> "none", dem_path |-> <<>>, folder |-> <<>>, rotation_deg |-> 0,
          smooth_terrain |-> FALSE, intermediate_save |-> FALSE,
          src_crs |-> "none", utm_before |-> "none"]
NoGeo == [cx |-> 0, cy |-> 0, n |-> 0, res |-> 1, rotation_deg |-> 90, tie |-> FALSE,
          pattern |-> "none"]
NoCrop == [status |-> "none", window |-> [left_px |-> 0, right_px |-> 0,
                                          bottom_px |-> 0, top_px |-> 0],
           nrows |-> 0, ncols |-> 0, crop_mask |-> NoGrid, data |-> NoGrid]

StepEv(name) == [ev |-> "step", name |-> name, path |-> <<>>]
WriteEv(path, kind) == [ev |-> "write", name |-> kind, path |-> path]

WriteFile(f, path, kind) == [q \in (DOMAIN f) \cup {path} |-> IF q = path THEN kind ELSE f[q]]
Readable(f, path) == path \in DOMAIN f /\ f[path] \in RasterKinds

\* process_dem lines 383-385 / the output_stl argument of a direct call
OutputStl == RawStlPath(inv.folder, inv.rotation_deg)
\* realignment in place: the final mesh saved over the raw one
AlignedStl_inplace == OutputStl
AlignedStl == AlignedStlPath(inv.folder)

\* the wrapper of capture_metadata encloses lines 204-277 only
InWrapper == inv.entry \in {"process_dem", "create"}
             /\ pc \in {"Opening", "Reprojecting", "Cropping", "Smoothing", "Meshing", "Saving"}

\* open(metadata_path, 'w') needs the directory of the metadata path, which is
\* the one line 219 creates only if the replacement left the directory alone
MetaDirOK == Dirname(MetadataPath(OutputStl)) = Dirname(OutputStl)

\* a failure path that cleans up the raw mesh it had written
Fail_rollback(err, f, l, metaOk) ==
    LET g == [q \in (DOMAIN f) \ {OutputStl} |-> f[q]]
    IN  /\ pc' = "Failed"
        /\ error' = err
        /\ fs' = g
        /\ log' = l

\* meta_data_process.py lines 53-63: the failed record, then re-raise
\* (outside the wrapper the exception just propagates)
Fail(err, f, l, metaOk) ==
    /\ pc' = "Failed"
    /\ error' = err
    /\ IF InWrapper /\ metaOk
       THEN /\ fs' = WriteFile(f, MetadataPath(OutputStl), "meta_failed")
            /\ log' = Append(l, WriteEv(MetadataPath(OutputStl), "meta_failed"))
       ELSE /\ fs' = f
            /\ log' = l

\* a reprojection whose output keeps the geographic CRS of its input
reproject_to_utm_keepcrs(f, input_path, output_path, outcome) ==
    CASE outcome = "ok" ->
            [fs |-> WriteFile(f, output_path, "EPSG:4326"), ok |-> TRUE, wrote |-> TRUE]
      [] outcome = "fail_partial" ->
            [fs |-> WriteFile(f, output_path, "partial"), ok |-> FALSE, wrote |-> TRUE]
      [] outcome = "fail_before" ->
            [fs |-> f, ok |-> FALSE, wrote |-> FALSE]

\* a reprojection that returns the existing output file instead of rewriting it
reproject_to_utm_cached(f, input_path, output_path, outcome) ==
    IF output_path \in DOMAIN f /\ f[output_path] = "projected"
    THEN [fs |-> f, ok |-> TRUE, wrote |-> FALSE]
    ELSE CASE outcome = "ok" ->
                [fs |-> WriteFile(f, output_path, "projected"), ok |-> TRUE, wrote |-> TRUE]
          [] outcome = "fail_partial" ->
                [fs |-> WriteFile(f, output_path, "partial"), ok |-> FALSE, wrote |-> TRUE]
          [] outcome = "fail_before" ->
                [fs |-> f, ok |-> FALSE, wrote |-> FALSE]

\* geo_utils.py lines 26-71: the file system after the call and whether it returned
reproject_to_utm(f, input_path, output_path, outcome) ==
    CASE outcome = "ok" ->
            [fs |-> WriteFile(f, output_path, "projected"), ok |-> TRUE, wrote |-> TRUE]
      [] outcome = "fail_partial" ->
            [fs |-> WriteFile(f, output_path, "partial"), ok |-> FALSE, wrote |-> TRUE]
      [] outcome = "fail_before" ->
            [fs |-> f, ok |-> FALSE, wrote |-> FALSE]

LogReproject(l, r, output_path) ==
    LET l1 == Append(l, StepEv("Reprojecting"))
    IN  IF r.wrote THEN Append(l1, WriteEv(output_path, r.fs[output_path])) ELSE l1

(* ------------------------------- Init --------------------------------- *)
\* The disk before the invocation: the two source rasters, possibly a reprojected
\* raster left at the cache path by an earlier invocation (complete, or partial
\* after a failed write), possibly the outputs of an earlier invocation.
CachePath == <<"data/", "site", "_utm", ".tif">>
StaleOutputs ==
    LET raw == RawStlPath(<<"out/">>, 45)
    IN  (raw :> "mesh_raw") @@ (AlignedStlPath(<<"out/">>) :> "mesh_final")
        @@ (MetadataPath(raw) :> "meta_completed")
InitDisks ==
    { (<<"data/", "site", ".tif">> :> k1) @@ (<<"data/", "site", ".vrt">> :> k2) @@ c @@ o
        : k1 \in RasterKinds, k2 \in {"EPSG:4326"},
          c \in {<<>>, CachePath :> "projected", CachePath :> "partial"},
          o \in {<<>>, StaleOutputs} }

Init ==
    /\ pc = "Idle"
    /\ inv = NoInv
    /\ fs \in InitDisks
    /\ log = <<>>
    /\ utm_dem_path = <<>>
    /\ depth = 0
    /\ crop_in = NoGeo
    /\ crop_out = NoCrop
    /\ elevation_data = NoGrid
    /\ mesh = {}
    /\ error = "none"

(* ------------------------------ actions ------------------------------- *)
\* centers of the crops the pipeline is run on: inside the raster, beyond each
\* of its four sides, and off its lower-left corner
OrchCenters ==
    LET midx == RasterW \div 2
        midy == RasterH \div 2
    IN  { <<midx, midy>>, <<1 - CenterPad, midy>>, <<RasterW + CenterPad - 1, midy>>,
          <<midx, 1 - CenterPad>>, <<midx, RasterH + CenterPad - 1>>, <<-2, -2>> }

OrchGeos(rotation_deg) ==
    { [cx |-> c[1], cy |-> c[2], n |-> n, res |-> 1, rotation_deg |-> rotation_deg,
       tie |-> TRUE, pattern |-> pat]
        : c \in OrchCenters, n \in OrchHalfSq, pat \in Patterns }

\* A caller starts an invocation: process_dem (lines 372-397), a direct call of
\* create_rotated_stl_from_dem, or a direct call of crop_dem_around_point_rotated.
Start ==
    /\ pc = "Idle"
    /\ \E entry \in {"process_dem", "create", "crop"}, dem_path \in DemPaths,
          folder \in OutFolders, rotation_deg \in OrchRotations,
          smooth_terrain \in BOOLEAN, intermediate_save \in BOOLEAN :
          /\ entry = "process_dem" => smooth_terrain /\ intermediate_save
          /\ entry = "crop" => smooth_terrain /\ intermediate_save /\ folder = <<"out/">>
          /\ inv' = [entry |-> entry, dem_path |-> dem_path, folder |-> folder,
                     rotation_deg |-> rotation_deg, smooth_terrain |-> smooth_terrain,
                     intermediate_save |-> intermediate_save,
                     src_crs |-> IF dem_path \in DOMAIN fs THEN fs[dem_path] ELSE "none",
                     utm_before |-> IF UtmPathSaved(dem_path) \in DOMAIN fs
                                    THEN fs[UtmPathSaved(dem_path)] ELSE "none"]
          /\ pc' = IF entry = "crop" THEN "Cropping" ELSE "Opening"
          /\ utm_dem_path' = dem_path
    /\ log' = <<>>
    /\ depth' = 0
    /\ crop_in' = NoGeo
    /\ crop_out' = NoCrop
    /\ elevation_data' = NoGrid
    /\ mesh' = {}
    /\ error' = "none"
    /\ UNCHANGED fs

\* lines 213-234 up to the decision whether to reproject
OpenDem ==
    /\ pc = "Opening"
    /\ UNCHANGED <<inv, depth, crop_in, crop_out, elevation_data, mesh>>
    /\ IF inv.dem_path \notin DOMAIN fs
       THEN /\ \E metaOk \in BOOLEAN : Fail("FileNotFoundError", fs, log, metaOk)
            /\ UNCHANGED utm_dem_path
       ELSE IF ~Readable(fs, inv.dem_path)
       THEN /\ \E metaOk \in BOOLEAN :
                 /\ metaOk => MetaDirOK
                 /\ Fail("RasterioIOError", fs, log, metaOk)
            /\ UNCHANGED utm_dem_path
       ELSE IF fs[inv.dem_path] \in {"EPSG:4326", "geographic"}
       THEN /\ pc' = "Reprojecting"
            /\ UNCHANGED <<fs, log, utm_dem_path, error>>
       ELSE /\ pc' = "Cropping"
            /\ utm_dem_path' = inv.dem_path
            /\ UNCHANGED <<fs, log, error>>

\* lines 225-230
Reproject ==
    /\ pc = "Reprojecting"
    /\ UNCHANGED <<inv, depth, crop_in, crop_out, elevation_data, mesh>>
    /\ \E outcome \in IOOutcomes, metaOk \in BOOLEAN :
         LET utm_path == IF inv.intermediate_save THEN UtmPathSaved(inv.dem_path)
                         ELSE UtmPathDefault(inv.dem_path)
             r == reproject_to_utm(fs, inv.dem_path, utm_path, outcome)
             l == LogReproject(log, r, utm_path)
         IN  IF r.ok
             THEN /\ pc' = "Cropping"
                  /\ utm_dem_path' = utm_path
                  /\ fs' = r.fs
                  /\ log' = l
                  /\ metaOk
                  /\ UNCHANGED error
             ELSE /\ metaOk => MetaDirOK
                  /\ Fail("ReprojectionError", r.fs, l, metaOk)
                  /\ UNCHANGED utm_dem_path

\* the smoothing toggle ignored
AfterCrop_noSmooth == IF inv.entry = "crop" THEN "Done" ELSE "Meshing"

\* where the pipeline goes once the crop has returned
AfterCrop == IF inv.entry = "crop" THEN "Done"
             ELSE IF inv.smooth_terrain THEN "Smoothing" ELSE "Meshing"

\* lines 238-243 and the body of crop_dem_around_point_rotated, lines 40-118;
\* one step per call, the recursive call of line 57 being the next step
Crop ==
    /\ pc = "Cropping"
    /\ depth < MaxCropDepth
    /\ UNCHANGED <<inv, mesh>>
    /\ LET l0 == IF depth = 0 THEN Append(log, StepEv("Cropping")) ELSE log
       IN  IF ~Readable(fs, utm_dem_path)
           THEN /\ \E metaOk \in BOOLEAN :
                     /\ metaOk => MetaDirOK
                     /\ Fail("RasterioIOError", fs, l0, metaOk)
                /\ UNCHANGED <<utm_dem_path, depth, crop_in, crop_out, elevation_data>>
           ELSE IF fs[utm_dem_path] = "EPSG:4326"
           THEN \E outcome \in IOOutcomes, metaOk \in BOOLEAN :
                  LET out == UtmPathDefault(utm_dem_path)
                      r == reproject_to_utm(fs, utm_dem_path, out, outcome)
                      l == LogReproject(l0, r, out)
                  IN  /\ UNCHANGED <<crop_in, crop_out, elevation_data>>
                      /\ IF r.ok
                         THEN /\ pc' = "Cropping"
                              /\ utm_dem_path' = out
                              /\ depth' = depth + 1
                              /\ fs' = r.fs
                              /\ log' = l
                              /\ metaOk
                              /\ UNCHANGED error
                         ELSE /\ metaOk => MetaDirOK
                              /\ Fail("ReprojectionError", r.fs, l, metaOk)
                              /\ UNCHANGED <<utm_dem_path, depth>>
           ELSE \E g \in OrchGeos(inv.rotation_deg), metaOk \in BOOLEAN :
                  LET r == CropWindow(g)
                  IN  /\ crop_in' = g
                      /\ crop_out' = r
                      /\ UNCHANGED <<utm_dem_path, depth>>
                      /\ IF r.status = "ok"
                         THEN /\ pc' = AfterCrop
                              /\ elevation_data' = r.data
                              /\ log' = l0
                              /\ metaOk
                              /\ UNCHANGED <<fs, error>>
                         ELSE /\ metaOk => MetaDirOK
                              /\ Fail(r.status, fs, l0, metaOk)
                              /\ UNCHANGED elevation_data

\* lines 245-247
Smooth ==
    /\ pc = "Smoothing"
    /\ elevation_data' = smooth_terrain_for_cfd(elevation_data, crop_out.nrows, crop_out.ncols)
    /\ log' = Append(log, StepEv("Smoothing"))
    /\ pc' = "Meshing"
    /\ UNCHANGED <<inv, fs, utm_dem_path, depth, crop_in, crop_out, mesh, error>>

\* lines 249-258
Mesh ==
    /\ pc = "Meshing"
    /\ UNCHANGED <<inv, utm_dem_path, depth, crop_in, crop_out, elevation_data>>
    /\ \E metaOk \in BOOLEAN :
         LET m == create_mesh_from_dem(elevation_data, crop_out.nrows, crop_out.ncols,
                                       crop_in.res)
         IN  IF ValidCells(elevation_data) = {}
             THEN /\ metaOk => MetaDirOK
                  /\ Fail("NoValidData", fs, log, metaOk)
                  /\ UNCHANGED mesh
             ELSE IF m.status # "ok"
             THEN /\ metaOk => MetaDirOK
                  /\ Fail(m.status, fs, Append(log, StepEv("Meshing")), metaOk)
                  /\ UNCHANGED mesh
             ELSE /\ metaOk
                  /\ mesh' = m.points
                  /\ log' = Append(log, StepEv("Meshing"))
                  /\ pc' = "Saving"
                  /\ UNCHANGED <<fs, error>>

\* lines 260-273, then the wrapper's lines 38-51 (or 53-63)
SaveRaw ==
    /\ pc = "Saving"
    /\ UNCHANGED <<inv, utm_dem_path, depth, crop_in, crop_out, elevation_data, mesh>>
    /\ \E outcome \in IOOutcomes, metaOk \in BOOLEAN, metaRetryOk \in BOOLEAN :
         /\ metaOk => MetaDirOK
         /\ metaRetryOk => MetaDirOK
         /\ CASE outcome = "ok" ->
                   LET f1 == WriteFile(fs, OutputStl, "mesh_raw")
                       l1 == Append(Append(log, WriteEv(OutputStl, "mesh_raw")),
                                    StepEv("SavedRaw"))
                   IN  IF metaOk
                       THEN /\ fs' = WriteFile(f1, MetadataPath(OutputStl), "meta_completed")
                            /\ log' = Append(l1, WriteEv(MetadataPath(OutputStl),
                                                         "meta_completed"))
                            /\ pc' = IF inv.entry = "create" THEN "Done" ELSE "SavedRaw"
                            /\ metaRetryOk
                            /\ UNCHANGED error
                       ELSE Fail("MetadataError", f1, l1, metaRetryOk)
              [] outcome = "fail_partial" ->
                   /\ ~metaRetryOk
                   /\ Fail("PersistenceError", WriteFile(fs, OutputStl, "partial"),
                           Append(log, WriteEv(OutputStl, "partial")), metaOk)
              [] outcome = "fail_before" ->
                   /\ ~metaRetryOk
                   /\ Fail("PersistenceError", fs, log, metaOk)

\* process_dem line 399 and realign_rotated_stl lines 321-356: read and counter-rotate
BeginRealign ==
    /\ pc = "SavedRaw"
    /\ UNCHANGED <<inv, utm_dem_path, depth, crop_in, crop_out, elevation_data, mesh>>
    /\ IF OutputStl \in DOMAIN fs /\ fs[OutputStl] = "mesh_raw"
       THEN /\ pc' = "Realigning"
            /\ log' = Append(log, StepEv("Realigning"))
            /\ UNCHANGED <<fs, error>>
       ELSE Fail("MeshReadError", fs, Append(log, StepEv("Realigning")), FALSE)

\* realign_rotated_stl lines 365-369
SaveFinal ==
    /\ pc = "Realigning"
    /\ UNCHANGED <<inv, utm_dem_path, depth, crop_in, crop_out, elevation_data, mesh>>
    /\ \E outcome \in IOOutcomes :
         CASE outcome = "ok" ->
                /\ fs' = WriteFile(fs, AlignedStl, "mesh_final")
                /\ log' = Append(Append(log, WriteEv(AlignedStl, "mesh_final")),
                                 StepEv("SavedFinal"))
                /\ pc' = "SavedFinal"
                /\ UNCHANGED error
           [] outcome = "fail_partial" ->
                Fail("PersistenceError", WriteFile(fs, AlignedStl, "partial"),
                     Append(log, WriteEv(AlignedStl, "partial")), FALSE)
           [] outcome = "fail_before" ->
                Fail("PersistenceError", fs, log, FALSE)

\* process_dem lines 408-421: the optional visualisation, then return
Finish ==
    /\ pc = "SavedFinal"
    /\ UNCHANGED <<inv, utm_dem_path, depth, crop_in, crop_out, elevation_data, mesh>>
    /\ \E debug_mode \in BOOLEAN, vizOk \in BOOLEAN :
         IF debug_mode /\ ~vizOk
         THEN Fail("VisualizationError", fs, log, FALSE)
         ELSE /\ debug_mode \/ vizOk
              /\ debug_mode => inv.src_crs # "EPSG:4326"
              /\ pc' = "Done"
              /\ UNCHANGED <<fs, log, error>>

Next ==
    \/ Start
    \/ OpenDem
    \/ Reproject
    \/ Crop
    \/ Smooth
    \/ Mesh
    \/ SaveRaw
    \/ BeginRealign
    \/ SaveFinal
    \/ Finish

Spec == Init /\ [][Next]_vars

(* ------------- the crop as a function of its inputs (SpecCrop) --------- *)
AllGeos ==
    [cx : (-CenterPad)..(RasterW * MaxRes + CenterPad),
     cy : (-CenterPad)..(RasterH * MaxRes + CenterPad),
     n : 1..MaxHalfSq, res : 1..MaxRes, rotation_deg : Rotations, tie : BOOLEAN,
     pattern : {"valid"}]

InitCrop ==
    /\ pc = "CropCall"
    /\ inv = NoInv
    /\ fs = <<>>
    /\ log = <<>>
    /\ utm_dem_path = <<>>
    /\ depth = 0
    /\ crop_in \in AllGeos
    /\ crop_in.cx <= RasterW * crop_in.res + CenterPad
    /\ crop_in.cy <= RasterH * crop_in.res + CenterPad
    /\ crop_out = NoCrop
    /\ elevation_data = NoGrid
    /\ mesh = {}
    /\ error = "none"

\* crop_dem_around_point_rotated applied to a projected raster, lines 59-118
CropCall ==
    /\ pc = "CropCall"
    /\ crop_out' = CropWindow(crop_in)
    /\ elevation_data' = crop_out'.data
    /\ error' = IF crop_out'.status = "ok" THEN "none" ELSE crop_out'.status
    /\ pc' = "CropReturned"
    /\ UNCHANGED <<inv, fs, log, utm_dem_path, depth, crop_in, mesh>>

NextCrop == CropCall

SpecCrop == InitCrop /\ [][NextCrop]_vars

(* ------------------------- geometric predicates ------------------------ *)
\* the expanded bounds center +- sqrt(2n) lie inside the raster extent
ExpandedInside(g) ==
    /\ g.cx >= CeilSqrt(2 * g.n)
    /\ g.cx + CeilSqrt(2 * g.n) <= RasterW * g.res
    /\ g.cy >= CeilSqrt(2 * g.n)
    /\ g.cy + CeilSqrt(2 * g.n) <= RasterH * g.res

\* the expanded bounds lie entirely beyond one side of the raster extent
CropOutside(g) ==
    \/ g.cx < 0 /\ g.cx * g.cx > 2 * g.n
    \/ g.cx > RasterW * g.res /\ (g.cx - RasterW * g.res) * (g.cx - RasterW * g.res) > 2 * g.n
    \/ g.cy < 0 /\ g.cy * g.cy > 2 * g.n
    \/ g.cy > RasterH * g.res /\ (g.cy - RasterH * g.res) * (g.cy - RasterH * g.res) > 2 * g.n

\* raster pixel (row, col) passes the rotated-footprint test of the crop g
InFootprint(g, row, col) ==
    create_rotated_crop_mask(PixelX(g, col) - g.cx, PixelY(g, row) - g.cy,
                             g.n, g.rotation_deg, g.tie)

InWindow(w, row, col) ==
    /\ w.bottom_px <= row /\ row < w.top_px
    /\ w.left_px <= col /\ col < w.right_px

(* ------------------------------ claims --------------------------------- *)
\* C7: when the expanded bounds lie inside the raster, every raster pixel
\* whose projected coordinate passes the rotated-footprint test lies in the
\* pixel window that is read, for every rotation angle.
C7_FullCoverage ==
    (pc = "CropReturned" /\ ExpandedInside(crop_in)) =>
        \A row \in 0..(RasterH - 1), col \in 0..(RasterW - 1) :
            InFootprint(crop_in, row, col) => InWindow(crop_out.window, row, col)

\* C8: for every raster, center and crop size the clamped pixel window lies
\* in the valid pixel range, 0 <= left_px <= right_px <= width and
\* 0 <= bottom_px <= top_px <= height.
C8_WindowInRange ==
    pc = "CropReturned" =>
        LET w == crop_out.window
        IN  /\ 0 <= w.left_px /\ w.left_px <= w.right_px /\ w.right_px <= RasterW
            /\ 0 <= w.bottom_px /\ w.bottom_px <= w.top_px /\ w.top_px <= RasterH

IsStep(e) == e.ev = "step"
IsWrite(e) == e.ev = "write"
Steps == LET sel == SelectSeq(log, IsStep) IN [i \in 1..Len(sel) |-> sel[i].name]
StepSet == {Steps[i] : i \in 1..Len(Steps)}
WrittenPaths == {log[i].path : i \in {j \in 1..Len(log) : IsWrite(log[j])}}
Rank(name) ==
    CASE name = "Reprojecting" -> 1
      [] name = "Cropping"     -> 2
      [] name = "Smoothing"    -> 3
      [] name = "Meshing"      -> 4
      [] name = "SavedRaw"     -> 5
      [] name = "Realigning"   -> 6
      [] name = "SavedFinal"   -> 7
Ended == pc \in {"Done", "Failed"}
Orchestrated == inv.entry = "process_dem"
SourceGeographic == inv.src_crs \in {"EPSG:4326", "geographic"}
FullRun ==
    (IF SourceGeographic THEN <<"Reprojecting">> ELSE <<>>) \o <<"Cropping">>
    \o (IF inv.smooth_terrain THEN <<"Smoothing">> ELSE <<>>)
    \o <<"Meshing", "SavedRaw", "Realigning", "SavedFinal">>

\* C1: an invocation of the orchestrator runs its steps only in the order
\* Reprojecting (only for a raster that is not projected), Cropping, Smoothing
\* (only when enabled), Meshing, Saved(raw), Realigning, Saved(final); no step
\* runs twice, Done is reached only after all of them, and from every position
\* the invocation moves only to the next step of the order or to Failed.
StepsInOrder ==
    Orchestrated =>
        /\ \A i, j \in 1..Len(Steps) : i < j => Rank(Steps[i]) < Rank(Steps[j])
        /\ "Reprojecting" \in StepSet => SourceGeographic
        /\ "Smoothing" \in StepSet => inv.smooth_terrain
        /\ pc = "Done" => Steps = FullRun
PcSuccessors(p) ==
    CASE p = "Idle"         -> {"Opening"}
      [] p = "Opening"      -> {"Reprojecting", "Cropping", "Failed"}
      [] p = "Reprojecting" -> {"Cropping", "Failed"}
      [] p = "Cropping"     -> {"Smoothing", "Meshing", "Failed"}
      [] p = "Smoothing"    -> {"Meshing", "Failed"}
      [] p = "Meshing"      -> {"Saving", "Failed"}
      [] p = "Saving"       -> {"SavedRaw", "Failed"}
      [] p = "SavedRaw"     -> {"Realigning", "Failed"}
      [] p = "Realigning"   -> {"SavedFinal", "Failed"}
      [] p = "SavedFinal"   -> {"Done", "Failed"}
      [] OTHER              -> {}
C1_StepOrder ==
    /\ []StepsInOrder
    /\ [][Orchestrated' => pc' \in PcSuccessors(pc)]_vars

\* C1 witness: a full run, reprojection and smoothing included, has reached Done
C1_Witness ==
    /\ Orchestrated /\ pc = "Done" /\ Len(Steps) = 7 /\ Steps[1] = "Reprojecting"

\* C2: once realignment has begun the raw mesh is on disk, was written before
\* realignment began and is not written again; at Done the final mesh is on
\* disk too, written by this invocation at another path.
C2_Checkpoints ==
    Orchestrated =>
        /\ "Realigning" \in StepSet =>
              /\ OutputStl \in DOMAIN fs /\ fs[OutputStl] = "mesh_raw"
              /\ \E i, j \in 1..Len(log) :
                    /\ i < j
                    /\ log[i] = WriteEv(OutputStl, "mesh_raw")
                    /\ log[j] = StepEv("Realigning")
                    /\ \A k \in (i + 1)..Len(log) :
                          IsWrite(log[k]) => log[k].path # OutputStl
        /\ pc = "Done" =>
              /\ "Realigning" \in StepSet
              /\ AlignedStl \in DOMAIN fs /\ fs[AlignedStl] = "mesh_final"
              /\ AlignedStl \in WrittenPaths

\* C2 witness: Done reached where an earlier invocation had left a final mesh
C2_Witness ==
    /\ Orchestrated /\ pc = "Done"
    /\ OutputStl \in WrittenPaths /\ AlignedStl \in WrittenPaths
    /\ inv.folder = <<"out/">>

\* C3: a failed invocation ends in Failed with the exception surfaced, every
\* mesh already written is still on disk unchanged, no step has run twice, and
\* nothing happens afterwards (no later step, no retry).
C3_FailureSurfaced ==
    /\ [](pc = "Failed" =>
            /\ error # "none"
            /\ \A i \in 1..Len(log) :
                  (IsWrite(log[i]) /\ log[i].name \in {"mesh_raw", "mesh_final"}) =>
                      (log[i].path \in DOMAIN fs /\ fs[log[i].path] = log[i].name)
            /\ \A i, j \in 1..Len(Steps) : i # j => Steps[i] # Steps[j])
    /\ [](pc # "Failed" => error = "none")
    /\ [][pc = "Failed" => UNCHANGED vars]_vars

\* C3 witness: realignment failed after the raw mesh had been written
C3_Witness ==
    /\ pc = "Failed" /\ "Realigning" \in StepSet
    /\ OutputStl \in WrittenPaths /\ fs[OutputStl] = "mesh_raw"

\* C4: when the requested crop lies entirely outside the raster extent, on
\* any side, the crop step fails with the empty-window error and the
\* invocation writes no mesh file.
C4_OutsideFailsEmpty ==
    (crop_in.pattern # "none" /\ CropOutside(crop_in)) =>
        /\ pc = "Failed"
        /\ error = "EmptyWindow"
        /\ WrittenPaths \cap {OutputStl, AlignedStl} = {}

\* C5: within one invocation the raster is reprojected at most once; after the
\* orchestrator has reprojected, the crop step is handed the reprojected file
\* and does not recurse; the crop step's own reproject-and-recurse path
\* recurses at most once, the next call finding a projected raster.
C5_ReprojectOnce ==
    /\ Cardinality({i \in 1..Len(Steps) : Steps[i] = "Reprojecting"}) <= 1
    /\ depth <= 1
    /\ (inv.entry \in {"process_dem", "create"} /\ pc # "Opening") => depth = 0
    /\ (depth = 1 /\ pc = "Cropping") =>
          (utm_dem_path \in DOMAIN fs /\ fs[utm_dem_path] = "projected")
    /\ (pc = "Cropping" /\ "Reprojecting" \in StepSet) =>
          (utm_dem_path \in WrittenPaths /\ fs[utm_dem_path] = "projected")

\* C5 witness: the crop step, called directly on an EPSG:4326 raster, has
\* reprojected, recursed once and returned
C5_Witness ==
    /\ inv.entry = "crop" /\ pc = "Done" /\ depth = 1 /\ crop_out.status = "ok"

\* C6 as stated: when a reprojected raster already exists at the cache path,
\* the invocation does not reproject and does not rewrite that file.
C6_CacheReadBeforeWrite ==
    (inv.entry \in {"process_dem", "create"} /\ inv.utm_before = "projected") =>
        /\ "Reprojecting" \notin StepSet
        /\ UtmPathSaved(inv.dem_path) \notin WrittenPaths

\* C6 amended: an invocation on a geographic source always reprojects and, if
\* the reprojection returns, has rewritten the file at the derived path
\* whether or not it existed; an invocation given a projected raster (such as
\* the reprojected file itself) neither reprojects nor writes any raster.
C6_CacheRewritten ==
    inv.entry \in {"process_dem", "create"} =>
        /\ (SourceGeographic /\ pc \notin {"Opening", "Reprojecting", "Failed"}) =>
              /\ "Reprojecting" \in StepSet
              /\ utm_dem_path \in WrittenPaths
              /\ utm_dem_path = IF inv.intermediate_save THEN UtmPathSaved(inv.dem_path)
                                ELSE UtmPathDefault(inv.dem_path)
        /\ inv.src_crs = "projected" =>
              /\ "Reprojecting" \notin StepSet
              /\ WrittenPaths \subseteq {OutputStl, AlignedStl, MetadataPath(OutputStl)}
              /\ pc \notin {"Opening", "Failed"} => utm_dem_path = inv.dem_path

\* C6 witness: the cache file existed, the source was geographic, and the
\* invocation has reprojected over it and finished
C6_Witness ==
    /\ inv.entry = "process_dem" /\ pc = "Done"
    /\ inv.utm_before = "projected" /\ SourceGeographic
    /\ UtmPathSaved(inv.dem_path) \in WrittenPaths

\* samples of the crop that remain after masking and no-data exclusion
RemainingSamples ==
    {p \in DOMAIN crop_out.data :
        /\ crop_out.crop_mask[p]
        /\ ~crop_out.data[p].nan
        /\ ~crop_out.data[p].nodata}

\* C10: if no sample remains after masking and no-data exclusion, the
\* invocation fails with an error before any mesh file is written.
C10_NoSampleFails ==
    (inv.entry \in {"process_dem", "create"} /\ crop_out.status = "ok"
     /\ RemainingSamples = {} /\ pc \notin {"Smoothing", "Meshing"}) =>
        /\ pc = "Failed"
        /\ OutputStl \notin WrittenPaths

\* C11: every vertex of the point cloud built by create_mesh_from_dem comes
\* from exactly one pixel whose crop mask is true and whose elevation is
\* positive and not the no-data sentinel, and every such pixel yields exactly
\* one vertex carrying that pixel's elevation.
C11_VerticesFromValidPixels ==
    mesh # {} =>
        /\ \A v \in mesh :
              LET p == <<v.row, v.col>>
              IN  /\ p \in DOMAIN crop_out.crop_mask /\ crop_out.crop_mask[p]
                  /\ v.z > 0 /\ ~v.nodata
                  /\ v.z = elevation_data[p].z
        /\ \A p \in DOMAIN elevation_data :
              (crop_out.crop_mask[p] /\ ~elevation_data[p].nan
               /\ elevation_data[p].z > 0 /\ ~elevation_data[p].nodata) =>
                  Cardinality({v \in mesh : v.row = p[1] /\ v.col = p[2]}) = 1

(* ---------- smooth_terrain_boundaries (BoundaryBlend), SpecCalls -------- *)
\* Lengths are metres.  Distances from the bounding-box centre are kept doubled
\* (dd = 2d) so that the centre (min + max) / 2 needs no halves; the meshes
\* drawn have vertices whose distance from the centre is a whole number.
\* Blend weights are thousandths (WeightScale = 1.0).
MaxBlendVertices == 3
EdgeBuffer == 1000
LowPct == 10
HighPct == 80
WeightScale == 1000

\* a NaN elevation, and the exact value num / den
NaNz == [nan |-> TRUE, num |-> 0, den |-> 1]
Rat(num, den) == [nan |-> FALSE, num |-> num, den |-> den]

\* integer square root of a perfect square below (2 * 4000)^2
Isqrt(m) ==
    LET h == CHOOSE c \in 0..80 : 10000 * c * c <= m /\ 10000 * (c + 1) * (c + 1) > m
    IN  CHOOSE k \in (100 * h)..(100 * h + 99) : k * k <= m /\ (k + 1) * (k + 1) > m

SeqMin(f) == CHOOSE v \in {f[i] : i \in DOMAIN f} : \A i \in DOMAIN f : v <= f[i]
SeqMax(f) == CHOOSE v \in {f[i] : i \in DOMAIN f} : \A i \in DOMAIN f : v >= f[i]

\* lines 34-41: doubled distance of every vertex from the bounding-box centre
Distances2(points) ==
    LET sx == SeqMin([i \in DOMAIN points |-> points[i].x])
              + SeqMax([i \in DOMAIN points |-> points[i].x])
        sy == SeqMin([i \in DOMAIN points |-> points[i].y])
              + SeqMax([i \in DOMAIN points |-> points[i].y])
    IN  [i \in DOMAIN points |->
            Isqrt((2 * points[i].x - sx) * (2 * points[i].x - sx)
                  + (2 * points[i].y - sy) * (2 * points[i].y - sy))]

\* the k-th smallest (k = 1, 2, ...) of the values z[i], i in idx
KthSmallest(z, idx, k) ==
    CHOOSE v \in {z[i] : i \in idx} :
        /\ Cardinality({i \in idx : z[i] < v}) < k
        /\ k <= Cardinality({i \in idx : z[i] <= v})

\* np.percentile (linear interpolation), times 100
Percentile100(z, idx, q) ==
    LET h   == (Cardinality(idx) - 1) * q
        lo  == h \div 100
        rem == h % 100
        a   == KthSmallest(z, idx, lo + 1)
    IN  IF rem = 0 THEN 100 * a
        ELSE 100 * a + rem * (KthSmallest(z, idx, lo + 2) - a)

\* lines 55-63: the mean of the AOI elevations between the two percentiles;
\* NaN when no elevation lies between them
TargetElevation(z, dd, aoi_size) ==
    LET aoi  == {i \in DOMAIN z : dd[i] <= aoi_size}
        low  == Percentile100(z, aoi, LowPct)
        high == Percentile100(z, aoi, HighPct)
        kept == IF aoi = {} THEN {}
                ELSE {i \in aoi : 100 * z[i] >= low /\ 100 * z[i] <= high}
        RECURSIVE Sum(_)
        Sum(S) == IF S = {} THEN 0
                  ELSE LET i == CHOOSE j \in S : TRUE IN z[i] + Sum(S \ {i})
    IN  IF kept = {} THEN NaNz ELSE Rat(Sum(kept), Cardinality(kept))

\* 0.5 * (1 - cos(pi * k / 12)) in thousandths, k = 0..12
CosTable_half == <<0, 4, 17, 38, 67, 103, 146, 196, 250, 309, 371, 435, 500>>
CosTable == <<0, 17, 67, 146, 250, 371, 500, 629, 750, 854, 933, 983, 1000>>

\* lines 79-80: the cosine transition at doubled distance dd, interpolated
\* linearly between the tabulated points
TransitionFormula(dd, start2, end2) ==
    LET pos == 12 * (dd - start2)
        k   == pos \div (end2 - start2)
        rem == pos % (end2 - start2)
    IN  IF k >= 12 THEN CosTable[13]
        ELSE CosTable[k + 1]
             + ((CosTable[k + 2] - CosTable[k + 1]) * rem) \div (end2 - start2)

\* the transition left without the constant 1 beyond its end
SmoothingFactor_noFull(dd, start2, end2) ==
    IF dd > start2 /\ dd < end2 THEN TransitionFormula(dd, start2, end2) ELSE 0

\* lines 68-83: three masked assignments, the later overriding the earlier
SmoothingFactor(dd, start2, end2) ==
    LET f0 == 0
        f1 == IF dd <= start2 THEN 0 ELSE f0
        f2 == IF dd > start2 /\ dd < end2 THEN TransitionFormula(dd, start2, end2) ELSE f1
    IN  IF dd >= end2 THEN WeightScale ELSE f2

\* lines 86-90: original * (1 - factor) + target * factor
BlendElevation(z, w, target) ==
    IF target.nan THEN NaNz
    ELSE Rat(z * (WeightScale - w) * target.den + target.num * w,
             target.den * WeightScale)

\* lines 26-93 on the vertices read from the file
smooth_terrain_boundaries(points, domain_size, aoi_size) ==
    LET dd      == Distances2(points)
        z       == [i \in DOMAIN points |-> points[i].z]
        start2  == aoi_size
        end2    == domain_size - 2 * EdgeBuffer
        target  == TargetElevation(z, dd, aoi_size)
        factors == [i \in DOMAIN points |-> SmoothingFactor(dd[i], start2, end2)]
    IN  [distances2 |-> dd, target_elevation |-> target, smoothing_factors |-> factors,
         aoi_empty |-> {i \in DOMAIN points : dd[i] <= aoi_size} = {},
         z |-> [i \in DOMAIN points |-> BlendElevation(z[i], factors[i], target)]]

\* ---- the calls drawn for smooth_terrain_boundaries ----
\* two corner vertices fix the bounding box, so its centre is the origin
BlendCorners == {<<-1200, -1600>>, <<1200, 1600>>}
BlendCandidates ==
    {<<0, 0>>, <<200, 0>>, <<-400, 0>>, <<300, 400>>, <<0, 600>>, <<600, -800>>,
     <<-1200, 0>>}
ElevationPatterns == {"flat", "slope", "peak"}
AoiSizes == {400, 800, 1200}
DomainSizes == {2800, 3200, 4400}

PatternZ(xy, pattern) ==
    CASE pattern = "flat"  -> 100
      [] pattern = "slope" -> 300 + xy[1] \div 10 + xy[2] \div 20
      [] OTHER             -> 500 - (Abs(xy[1]) + Abs(xy[2])) \div 4

\* the vertices of a file, ordered west to east then south to north
RECURSIVE PointsOf(_, _)
PointsOf(S, pattern) ==
    IF S = {} THEN <<>>
    ELSE LET xy == CHOOSE a \in S : \A b \in S : a[1] < b[1] \/ (a[1] = b[1] /\ a[2] <= b[2])
         IN  <<[x |-> xy[1], y |-> xy[2], z |-> PatternZ(xy, pattern)]>>
             \o PointsOf(S \ {xy}, pattern)

BlendCalls ==
    {[entry |-> "smooth_terrain_boundaries", points |-> PointsOf(BlendCorners \cup S, pattern),
      domain_size |-> domain_size, aoi_size |-> aoi_size] :
        S \in {T \in SUBSET BlendCandidates : Cardinality(T) \in 1..MaxBlendVertices},
        pattern \in ElevationPatterns, domain_size \in DomainSizes, aoi_size \in AoiSizes}

InitBlend ==
    /\ pc = "BlendCall"
    /\ inv \in BlendCalls
    /\ fs = <<>>
    /\ log = <<>>
    /\ utm_dem_path = <<>>
    /\ depth = 0
    /\ crop_in = NoGeo
    /\ crop_out = NoCrop
    /\ elevation_data = NoGrid
    /\ mesh = {}
    /\ error = "none"

\* np.percentile of an empty AOI raises in some numpy releases and returns NaN
\* in others
BlendOutcomes(r) == IF r.aoi_empty THEN {"IndexError", "none"} ELSE {"none"}

\* smooth_terrain_boundaries called on a mesh file, lines 7-104 and 190
BlendCall ==
    /\ pc = "BlendCall"
    /\ LET r == smooth_terrain_boundaries(inv.points, inv.domain_size, inv.aoi_size)
       IN  \E outcome \in BlendOutcomes(r) :
               /\ error' = outcome
               /\ mesh' = IF outcome = "none" THEN r ELSE {}
    /\ pc' = "BlendReturned"
    /\ UNCHANGED <<inv, fs, log, utm_dem_path, depth, crop_in, crop_out, elevation_data>>

BlendReturned == pc = "BlendReturned" /\ error = "none"
AoiRadius2 == inv.aoi_size
TransitionEnd2 == inv.domain_size - 2 * EdgeBuffer

DistanceGrid == {100 * k : k \in 0..40}
MaxStep == (2 * WeightScale) \div (TransitionEnd2 - AoiRadius2) + 1
MaxMeshVertices == 4

\* cos and sin of theta degrees as c / sqrt(d), s / sqrt(d); 53 and 37 stand
\* for the 3-4-5 angles atan(4/3) and atan(3/4)
CosSin(theta) ==
    LET a == Abs(theta)
        t == CASE a = 0   -> <<1, 0, 1>>
               [] a = 45  -> <<1, 1, 2>>
               [] a = 90  -> <<0, 1, 1>>
               [] a = 135 -> <<-1, 1, 2>>
               [] a = 180 -> <<-1, 0, 1>>
               [] a = 225 -> <<-1, -1, 2>>
               [] a = 270 -> <<0, -1, 1>>
               [] a = 315 -> <<1, -1, 2>>
               [] a = 53  -> <<3, 4, 25>>
               [] a = 37  -> <<4, 3, 25>>
    IN  [c |-> t[1], s |-> IF theta < 0 THEN -t[2] ELSE t[2], d |-> t[3]]

\* lines 340-341: x cos(theta) - y sin(theta), x sin(theta) + y cos(theta)
RotateXY(pt, theta) ==
    LET t == CosSin(theta)
    IN  [pt EXCEPT !.x = pt.x * t.c - pt.y * t.s,
                   !.y = pt.x * t.s + pt.y * t.c,
                   !.q = pt.q * t.d]

\* the angle of the rotation taken as the given angle itself
CounterTheta_same(rotation_deg) == rotation_deg

\* line 335: theta = deg2rad(-rotation_deg)
CounterTheta(rotation_deg) == -rotation_deg

\* a copy that shares the point array with the mesh copied
PvCopy_shallow(m) == [mesh |-> m, shares_points |-> TRUE]

\* line 353: mesh.copy() copies the point array
PvCopy(m) == [mesh |-> m, shares_points |-> FALSE]

\* lines 332-356: the mesh read, as it is after the call, and the mesh saved
realign_rotated_stl(m, rotation_deg, flip_y, flip_x) ==
    LET theta    == CounterTheta(rotation_deg)
        rotated  == [i \in DOMAIN m.points |-> RotateXY(m.points[i], theta)]
        new_xy   == [i \in DOMAIN m.points |->
                        [rotated[i] EXCEPT !.x = IF flip_x THEN -@ ELSE @,
                                           !.y = IF flip_y THEN -@ ELSE @]]
        new_mesh == PvCopy(m)
        written  == [i \in DOMAIN m.points |->
                        [new_mesh.mesh.points[i] EXCEPT !.x = new_xy[i].x,
                                                        !.y = new_xy[i].y,
                                                        !.q = new_xy[i].q]]
    IN  [input  |-> IF new_mesh.shares_points THEN [m EXCEPT !.points = written] ELSE m,
         output |-> [new_mesh.mesh EXCEPT !.points = written]]

\* ---- the calls drawn for realign_rotated_stl ----
RealignCandidates == {<<-2, -1>>, <<0, 0>>, <<1, 0>>, <<3, -2>>, <<0, 2>>, <<-1, 3>>}
RealignAngles == Rotations \cup {-r : r \in Rotations}

RECURSIVE VerticesOf(_)
VerticesOf(S) ==
    IF S = {} THEN <<>>
    ELSE LET xy == CHOOSE a \in S : \A b \in S : a[1] < b[1] \/ (a[1] = b[1] /\ a[2] <= b[2])
         IN  <<[x |-> xy[1], y |-> xy[2], q |-> 1, z |-> 10 + 3 * xy[1] + xy[2]]>>
             \o VerticesOf(S \ {xy})

\* triangles over consecutive vertices
FacesOf(n) == {<<i, i + 1, i + 2>> : i \in 0..(n - 3)}

RawMeshes ==
    {[points |-> VerticesOf(S), faces |-> FacesOf(Cardinality(S))] :
        S \in {T \in SUBSET RealignCandidates : Cardinality(T) \in 3..MaxMeshVertices}}

\* the mesh with every vertex rotated by theta degrees
Rotated(m, theta) == [m EXCEPT !.points = [i \in DOMAIN m.points |-> RotateXY(m.points[i], theta)]]

\* direct calls on a mesh that was rotated by angle pre before (pre = 0: not
\* rotated), and the call process_dem makes for config.rotation_deg, lines 399-406
RealignCalls ==
    {[entry |-> "realign_rotated_stl", original |-> m, pre |-> pre, mesh |-> Rotated(m, pre),
      rotation_deg |-> rotation_deg, flip_y |-> flip_y, flip_x |-> flip_x,
      config_rotation_deg |-> 0] :
        m \in RawMeshes, pre \in Rotations, rotation_deg \in RealignAngles,
        flip_y \in BOOLEAN, flip_x \in BOOLEAN}
ProcessDemCalls ==
    {[entry |-> "process_dem", original |-> m, pre |-> 0, mesh |-> m,
      rotation_deg |-> -config_rotation_deg, flip_y |-> TRUE, flip_x |-> FALSE,
      config_rotation_deg |-> config_rotation_deg] :
        m \in RawMeshes, config_rotation_deg \in Rotations}

InitRealign ==
    /\ pc = "RealignCall"
    /\ inv \in RealignCalls \cup ProcessDemCalls
    /\ inv.pre \in {0, inv.rotation_deg}
    /\ fs = <<>>
    /\ log = <<>>
    /\ utm_dem_path = <<>>
    /\ depth = 0
    /\ crop_in = NoGeo
    /\ crop_out = NoCrop
    /\ elevation_data = NoGrid
    /\ mesh = {}
    /\ error = "none"

\* realign_rotated_stl called on a mesh file, lines 310-369
RealignCall ==
    /\ pc = "RealignCall"
    /\ mesh' = realign_rotated_stl(inv.mesh, inv.rotation_deg, inv.flip_y, inv.flip_x)
    /\ pc' = "RealignReturned"
    /\ UNCHANGED <<inv, fs, log, utm_dem_path, depth, crop_in, crop_out, elevation_data, error>>

\* a / sqrt(qa) = b / sqrt(qb)
SameCoord(a, qa, b, qb) ==
    /\ (a > 0) = (b > 0)
    /\ (a < 0) = (b < 0)
    /\ a * a * qb = b * b * qa
SameXY(u, v) == SameCoord(u.x, u.q, v.x, v.q) /\ SameCoord(u.y, u.q, v.y, v.q)

\* C16: the final mesh of process_dem has the raw mesh's (x, y) rotated by
\* -config.rotation_deg and then y negated, x not negated.
C16_FinalIsCounterRotated ==
    (pc = "RealignReturned" /\ inv.entry = "process_dem") =>
        \A i \in DOMAIN inv.mesh.points :
            LET r == RotateXY(inv.mesh.points[i], -inv.config_rotation_deg)
            IN  SameXY(mesh.output.points[i], [r EXCEPT !.y = -r.y])

\* C17: realign_rotated_stl returns a mesh with the vertex count, the faces and
\* every vertex's elevation of the mesh read, and leaves the mesh read as it was.
C17_OnlyXYChanges ==
    pc = "RealignReturned" =>
        /\ Len(mesh.output.points) = Len(inv.mesh.points)
        /\ mesh.output.faces = inv.mesh.faces
        /\ \A i \in DOMAIN inv.mesh.points : mesh.output.points[i].z = inv.mesh.points[i].z
        /\ mesh.input = inv.mesh

\* a returned call that rotated by an oblique angle with both flips set and
\* moved some vertex
C17_Witness ==
    /\ pc = "RealignReturned"
    /\ inv.rotation_deg \in {45, -53} /\ inv.flip_x /\ inv.flip_y
    /\ \E i \in DOMAIN inv.mesh.points : ~SameXY(mesh.output.points[i], inv.mesh.points[i])

ReferenceCrop == CropWindow([crop_in EXCEPT !.rotation_deg = 90, !.tie = FALSE])

\* (row, col, x, y) of every point of the mesh built from a crop
PixelCoords(c) ==
    {<<v.row, v.col, v.x2, v.y2>> : v \in MeshPoints(c.data, c.nrows, c.ncols, crop_in.res)}

\* C19: for the same raster, center and crop size, every rotation and mask
\* reads the pixel window that the axis-aligned crop reads, and a pixel that is
\* a vertex of both meshes has the same mesh-local (x, y) in both; all
\* rotations agreeing with the axis-aligned one, they agree with each other.
C19_WindowAndOriginStable ==
    pc = "CropReturned" =>
        LET ref == ReferenceCrop
        IN  /\ crop_out.window = ref.window
            /\ crop_out.status = ref.status
            /\ crop_out.nrows = ref.nrows /\ crop_out.ncols = ref.ncols
            /\ crop_out.status = "ok" =>
                  {c \in PixelCoords(crop_out) : ref.crop_mask[<<c[1], c[2]>>]}
                      \subseteq PixelCoords(ref)

\* a returned oblique crop whose mask differs from the axis-aligned one, is not
\* centred in its window, and shares a pixel with it
C19_Witness ==
    /\ pc = "CropReturned" /\ crop_out.status = "ok"
    /\ crop_in.rotation_deg \in {45, 53}
    /\ crop_out.crop_mask # ReferenceCrop.crop_mask
    /\ \E p \in DOMAIN crop_out.crop_mask :
          /\ crop_out.crop_mask[p]
          /\ ~crop_out.crop_mask[<<crop_out.nrows - 1 - p[1], crop_out.ncols - 1 - p[2]>>]
    /\ \E p \in DOMAIN crop_out.crop_mask : crop_out.crop_mask[p] /\ ReferenceCrop.crop_mask[p]

(* ------------------ true pixels of the mask across rotations ----------- *)
\* number of true pixels of the mask of a crop
MaskCount(c) == Cardinality({p \in DOMAIN c.crop_mask : c.crop_mask[p]})

\* the crop has returned a mask and its expanded bounds lie inside the raster
MaskReturned ==
    /\ pc = "CropReturned"
    /\ crop_out.status = "ok"
    /\ ExpandedInside(crop_in)

MaxSmoothDim == 3

\* an array that is a view of the array copied
NpCopy_view(a) == [array |-> a, shares |-> TRUE]

\* line 288: elevation_data.copy()
NpCopy(a) == [array |-> a, shares |-> FALSE]

\* the caller's array after smooth_terrain_for_cfd returned: lines 296-304 write
\* to temp_array and to smoothed only
InputAfterSmooth(data, nrows, ncols) ==
    IF NpCopy(data).shares
    THEN smooth_terrain_for_cfd(data, nrows, ncols)
    ELSE data

\* ---- the calls drawn for smooth_terrain_for_cfd ----
\* a grid whose cell (row, col) is NaN when (a * row + b * col + c) % m = 0
SmoothGrid(nrows, ncols, pattern, k) ==
    [p \in Cells(nrows, ncols) |->
        IF (k.a * p[1] + k.b * p[2] + k.c) % k.m = 0 THEN NaNCell
        ELSE RasterCell(pattern, p[1], p[2])]

SmoothCalls ==
    {[entry |-> "smooth_terrain_for_cfd", nrows |-> nrows, ncols |-> ncols,
      elevation_data |-> SmoothGrid(nrows, ncols, pattern, k)] :
        nrows \in 1..MaxSmoothDim, ncols \in 1..MaxSmoothDim, pattern \in Patterns,
        k \in [a : 0..2, b : 0..2, c : 0..2, m : 2..4]}

InitSmooth ==
    /\ pc = "SmoothCall"
    /\ inv \in SmoothCalls
    /\ fs = <<>>
    /\ log = <<>>
    /\ utm_dem_path = <<>>
    /\ depth = 0
    /\ crop_in = NoGeo
    /\ crop_out = NoCrop
    /\ elevation_data = NoGrid
    /\ mesh = {}
    /\ error = "none"

\* smooth_terrain_for_cfd(elevation_data) with preserve_nan=True, lines 279-307;
\* crop_out.data holds the caller's array after the call
SmoothCall ==
    /\ pc = "SmoothCall"
    /\ elevation_data' = smooth_terrain_for_cfd(inv.elevation_data, inv.nrows, inv.ncols)
    /\ crop_out' = [NoCrop EXCEPT !.status = "ok", !.nrows = inv.nrows, !.ncols = inv.ncols,
                                  !.data = InputAfterSmooth(inv.elevation_data, inv.nrows,
                                                            inv.ncols)]
    /\ pc' = "SmoothReturned"
    /\ UNCHANGED <<inv, fs, log, utm_dem_path, depth, crop_in, mesh, error>>

StepsPerDegree == 2

\* Python's int() of the quotient a / b, b > 0: truncation toward zero
IntDiv(a, b) == IF a >= 0 THEN a \div b ELSE -((-a) \div b)

\* geo_utils.py lines 16-24, with longitude = lon / StepsPerDegree and
\* latitude = lat / StepsPerDegree
get_utm_crs(lon, lat) ==
    LET utm_zone == IntDiv(lon + 180 * StepsPerDegree, 6 * StepsPerDegree) + 1
    IN  [utm_zone  |-> utm_zone,
         epsg_code |-> IF lat >= 0 THEN 32600 + utm_zone ELSE 32700 + utm_zone]

UtmCalls ==
    {[entry |-> "get_utm_crs", longitude |-> lon, latitude |-> lat] :
        lon \in (-180 * StepsPerDegree)..(180 * StepsPerDegree),
        lat \in {-90 * StepsPerDegree, -1, 0, 1, 90 * StepsPerDegree}}

InitUtm ==
    /\ pc = "UtmCall"
    /\ inv \in UtmCalls
    /\ fs = <<>>
    /\ log = <<>>
    /\ utm_dem_path = <<>>
    /\ depth = 0
    /\ crop_in = NoGeo
    /\ crop_out = NoCrop
    /\ elevation_data = NoGrid
    /\ mesh = {}
    /\ error = "none"

\* get_utm_crs(longitude, latitude); mesh holds the zone and the EPSG code chosen
UtmCall ==
    /\ pc = "UtmCall"
    /\ mesh' = get_utm_crs(inv.longitude, inv.latitude)
    /\ pc' = "UtmReturned"
    /\ UNCHANGED <<inv, fs, log, utm_dem_path, depth, crop_in, crop_out, elevation_data, error>>

\* C21: for a longitude in [-180, 180] get_utm_crs chooses the zone
\* floor((lon + 180) / 6) + 1, a zone number in 1..60, and the EPSG code
\* 32600 + zone for latitude >= 0, 32700 + zone otherwise.
C21_ZoneValid ==
    pc = "UtmReturned" =>
        /\ mesh.utm_zone = (inv.longitude + 180 * StepsPerDegree) \div (6 * StepsPerDegree) + 1
        /\ mesh.utm_zone \in 1..60
        /\ mesh.epsg_code = (IF inv.latitude >= 0 THEN 32600 ELSE 32700) + mesh.utm_zone

(* ----------------------- generate_directions, SpecCalls ------------------ *)
\* src/GenerateInputs/dem_processing/randomDirections.py (four sectors) and
\* src/fetchData/parameter_generation.py (sectors is an argument)
MaxSectors == 4

\* random.randint(a, b): any integer N with a <= N <= b.  The two ends, their
\* neighbours and the middle stand for the range.
RandInt(a, b) == {a, a + 1, (a + b) \div 2, b - 1, b} \cap (a..b)

\* the lists generate_directions(sectors, absolute_random) can return after
\* the first n draws (lines 18 and 22-25)
RECURSIVE DirectionsAfter(_, _, _)
DirectionsAfter(n, sector_size, absolute_random) ==
    IF n = 0 THEN {<<>>}
    ELSE LET lower_bound == (n - 1) * sector_size
             upper_bound == n * sector_size
             draws == IF absolute_random THEN RandInt(0, 360)
                      ELSE RandInt(lower_bound, upper_bound)
         IN  {Append(directions, d) :
                 directions \in DirectionsAfter(n - 1, sector_size, absolute_random),
                 d \in draws}

generate_directions(sectors, absolute_random) ==
    DirectionsAfter(sectors, 360 \div sectors, absolute_random)

\* f"{direction:03d}": at least three decimal digits, zero padded
Format03d(n) ==
    IF n < 1000 THEN <<n \div 100, (n \div 10) % 10, n % 10>>
    ELSE <<n \div 1000, (n \div 100) % 10, (n \div 10) % 10, n % 10>>

\* generateInputs.py line 64: subdir = f"rotatedTerrain_{direction:03d}_deg"
Subdir(direction) == <<"rotatedTerrain_", Format03d(direction), "_deg">>

DirectionCalls ==
    {[entry |-> "generate_directions", sectors |-> n, absolute_random |-> b] :
        n \in 1..MaxSectors, b \in BOOLEAN}

InitDirections ==
    /\ pc = "DirectionsCall"
    /\ inv \in DirectionCalls
    /\ fs = <<>>
    /\ log = <<>>
    /\ utm_dem_path = <<>>
    /\ depth = 0
    /\ crop_in = NoGeo
    /\ crop_out = NoCrop
    /\ elevation_data = NoGrid
    /\ mesh = <<>>
    /\ error = "none"

\* one call; mesh holds the list returned, fs the subdirectories the driver
\* creates for it (os.makedirs(path, exist_ok=True) for every direction)
DirectionsCall ==
    /\ pc = "DirectionsCall"
    /\ \E directions \in generate_directions(inv.sectors, inv.absolute_random) :
          /\ mesh' = directions
          /\ fs' = [path \in {Subdir(directions[k]) : k \in 1..Len(directions)} |-> "dir"]
    /\ pc' = "DirectionsReturned"
    /\ UNCHANGED <<inv, log, utm_dem_path, depth, crop_in, crop_out, elevation_data, error>>

\* C30: in sector mode the k-th direction (counted from 0) lies in
\* [k*s, (k+1)*s) with s = 360 div sectors, so the directions of one call are
\* in [0, 360) and pairwise distinct, and the driver creates one subdirectory
\* per direction.
C30_OnePerSector ==
    (pc = "DirectionsReturned" /\ ~inv.absolute_random) =>
        LET s == 360 \div inv.sectors
        IN  /\ Len(mesh) = inv.sectors
            /\ \A k \in 1..Len(mesh) : (k - 1) * s <= mesh[k] /\ mesh[k] < k * s
            /\ \A k \in 1..Len(mesh) : 0 <= mesh[k] /\ mesh[k] < 360
            /\ \A j, k \in 1..Len(mesh) : j # k => mesh[j] # mesh[k]
            /\ Cardinality(DOMAIN fs) = inv.sectors

(* ------------------- the derived file paths, SpecCalls ------------------ *)
\* output_stl arguments: the path process_dem builds, and mesh files named by
\* a caller of create_rotated_stl_from_dem
OutputStlPaths ==
    {RawStlPath(folder, 45) : folder \in OutFolders}
        \cup {folder \o <<"mesh", ext>> : folder \in OutFolders, ext \in {".stl", ".ply", ".STL"}}

\* dem_processor_original.py lines 224-230 with geo_utils.py lines 54-68, and
\* meta_data_process.py lines 46-49: the paths at which an invocation on a
\* geographic raster writes the reprojected raster and the metadata record
DerivedPaths(dem_path, output_stl, intermediate_save) ==
    [utm_path      |-> IF intermediate_save THEN UtmPathSaved(dem_path)
                       ELSE UtmPathDefault(dem_path),
     metadata_path |-> MetadataPath(output_stl)]

PathCalls ==
    {[entry |-> "derived_paths", dem_path |-> d, output_stl |-> o, intermediate_save |-> b] :
        d \in DemPaths, o \in OutputStlPaths, b \in BOOLEAN}

InitPaths ==
    /\ pc = "PathsCall"
    /\ inv \in PathCalls
    /\ fs = <<>>
    /\ log = <<>>
    /\ utm_dem_path = <<>>
    /\ depth = 0
    /\ crop_in = NoGeo
    /\ crop_out = NoCrop
    /\ elevation_data = NoGrid
    /\ mesh = {}
    /\ error = "none"

\* the two derived paths of one invocation; mesh holds them
PathsCall ==
    /\ pc = "PathsCall"
    /\ mesh' = DerivedPaths(inv.dem_path, inv.output_stl, inv.intermediate_save)
    /\ pc' = "PathsReturned"
    /\ UNCHANGED <<inv, fs, log, utm_dem_path, depth, crop_in, crop_out, elevation_data, error>>

\* C26: for every dem_path and output_stl the path of the reprojected raster
\* differs from dem_path and the path of the metadata record differs from
\* output_stl.
C26_DerivedNeverPrimary ==
    pc = "PathsReturned" =>
        /\ mesh.utm_path # inv.dem_path
        /\ mesh.metadata_path # inv.output_stl

(* ------------------- the calls of the pure functions ------------------- *)
InitCalls == InitBlend \/ InitRealign \/ InitSmooth \/ InitUtm \/ InitDirections \/ InitPaths
NextCalls == BlendCall \/ RealignCall \/ SmoothCall \/ UtmCall \/ DirectionsCall \/ PathsCall
SpecCalls == InitCalls /\ [][NextCalls]_vars

(* ------------------------- the metadata record ------------------------- *)
\* positions in the log at which this invocation wrote a metadata record
RecordWrites ==
    {i \in 1..Len(log) : IsWrite(log[i])
                          /\ log[i].name \in {"meta_completed", "meta_failed", "meta_processing"}}

\* the decorated function has ended: it returned (the raw mesh step is logged)
\* or the invocation failed
WrapperEnded ==
    /\ inv.entry \in {"process_dem", "create"}
    /\ pc \in {"Failed", "Done", "SavedRaw", "Realigning", "SavedFinal"}

\* C22: once the decorated create_rotated_stl_from_dem has ended, the invocation
\* has written exactly one metadata record, at the path derived from
\* output_stl, with status completed if the function returned and failed if it
\* raised, and never with status processing.
C22_OneRecordPerInvocation ==
    WrapperEnded =>
        /\ Cardinality(RecordWrites) = 1
        /\ \A i \in RecordWrites :
              /\ log[i].path = MetadataPath(OutputStl)
              /\ log[i].name = IF "SavedRaw" \in StepSet THEN "meta_completed"
                               ELSE "meta_failed"

(* --------- capture_metadata with thread-local storage, SpecMeta -------- *)
\* src/GenerateInputs/dem_processing/meta_data_process.py.  In SpecMeta the
\* variables hold: inv the stack of active decorated invocations of every
\* thread, depth the number of invocations started, crop_out the metadata dict
\* and the outcome of every invocation, mesh the attribute `current` of
\* _metadata_storage in every thread (0: no attribute), fs the records
\* written, log the set of add_metadata calls made.
Threads == {"t1", "t2"}
MaxInvocations == 3
MaxNesting == 2
MaxAdds == 2

\* ways of passing the six leading arguments: six or more positional, at most
\* one positional, or two to five positional
ArgModes == {"positional", "keyword", "mixed"}

\* lines 14-22: what the wrapper binds to output_stl
BoundOutputStl(mode) == IF mode = "mixed" THEN "tuple" ELSE "str"

\* the metadata path of invocation id; output_stl.replace exists for str only
RecordPath(id) == <<"out/", ToString(id), "_metadata", ".json">>

\* the storage left as it is when the wrapper ends
ClearContext_keep(storage, t) == storage

\* lines 70-73: delattr(_metadata_storage, 'current') in the thread of the wrapper
ClearContext(storage, t) == [storage EXCEPT ![t] = 0]

Top(stack) == IF stack = <<>> THEN 0 ELSE stack[Len(stack)]

InitMeta ==
    /\ pc = "Meta"
    /\ inv = [t \in Threads |-> <<>>]
    /\ fs = <<>>
    /\ log = {}
    /\ utm_dem_path = <<>>
    /\ depth = 0
    /\ crop_in = NoGeo
    /\ crop_out = <<>>
    /\ elevation_data = NoGrid
    /\ mesh = [t \in Threads |-> 0]
    /\ error = "none"

\* lines 12-42: the wrapper binds the arguments, builds the dict and stores it
\* in the thread's storage; the wrapped function starts
WrapperEnter(t) ==
    /\ pc = "Meta"
    /\ depth < MaxInvocations
    /\ Len(inv[t]) < MaxNesting
    /\ \E mode \in ArgModes :
          crop_out' = Append(crop_out,
                             [thread |-> t, output_stl |-> BoundOutputStl(mode),
                              status |-> "processing", entries |-> {},
                              func |-> "running", outcome |-> "active"])
    /\ depth' = depth + 1
    /\ mesh' = [mesh EXCEPT ![t] = depth + 1]
    /\ inv' = [inv EXCEPT ![t] = Append(@, depth + 1)]
    /\ UNCHANGED <<pc, fs, log, utm_dem_path, crop_in, elevation_data, error>>

\* lines 77-84: add_metadata called by the code running in thread t (by the
\* innermost active invocation, or outside any invocation: caller 0)
AddMetadata(t) ==
    /\ pc = "Meta"
    /\ Cardinality(log) < MaxAdds
    /\ log' = log \cup {[thread |-> t, caller |-> Top(inv[t]), target |-> mesh[t]]}
    /\ crop_out' = IF mesh[t] = 0 THEN crop_out
                   ELSE [crop_out EXCEPT ![mesh[t]].entries = @ \cup {Top(inv[t])}]
    /\ UNCHANGED <<pc, inv, fs, utm_dem_path, depth, crop_in, elevation_data, mesh, error>>

\* lines 44-73: the wrapped function of the innermost invocation of thread t
\* returns or raises; the record is written unless output_stl.replace raises
\* (in the try block and again in the except branch), the wrapper returns or
\* raises, and finally clears the storage
WrapperExit(t) ==
    /\ pc = "Meta"
    /\ inv[t] # <<>>
    /\ LET id == Top(inv[t])
           m  == crop_out[id]
       IN  \E raised \in BOOLEAN :
             LET written == m.output_stl = "str"
                 status  == IF ~raised /\ written THEN "completed" ELSE "failed"
             IN  /\ crop_out' = [crop_out EXCEPT
                                   ![id].status = status,
                                   ![id].func = IF raised THEN "raised" ELSE "returned",
                                   ![id].outcome = IF ~raised /\ written THEN "returned"
                                                   ELSE "raised"]
                 /\ fs' = IF written
                          THEN WriteFile(fs, RecordPath(id),
                                         [status |-> status, entries |-> m.entries])
                          ELSE fs
    /\ mesh' = ClearContext(mesh, t)
    /\ inv' = [inv EXCEPT ![t] = Front(@)]
    /\ UNCHANGED <<pc, log, utm_dem_path, depth, crop_in, elevation_data, error>>

NextMeta == \E t \in Threads : WrapperEnter(t) \/ AddMetadata(t) \/ WrapperExit(t)
SpecMeta == InitMeta /\ [][NextMeta]_vars

\* C23: a thread with no active invocation has no metadata context, an
\* add_metadata call made outside any invocation reaches no record, and the
\* entries of an invocation's record, in memory and on disk, were all added by
\* that invocation itself.
C23_NoContextLeak ==
    pc = "Meta" =>
        /\ \A t \in Threads : inv[t] = <<>> => mesh[t] = 0
        /\ \A call \in log : call.caller = 0 => call.target = 0
        /\ \A id \in 1..Len(crop_out) :
              /\ crop_out[id].entries \subseteq {id}
              /\ RecordPath(id) \in DOMAIN fs => fs[RecordPath(id)].entries \subseteq {id}

\* an invocation has ended with an entry in its written record, another one
\* has run in the same thread and one in another thread, and add_metadata was
\* then called outside any invocation
C23_Witness ==
    /\ pc = "Meta"
    /\ \E a, b, c \in 1..Len(crop_out) :
          /\ a < b /\ a # c /\ b # c
          /\ crop_out[a].thread = crop_out[b].thread
          /\ crop_out[c].thread # crop_out[a].thread
          /\ crop_out[a].outcome # "active"
          /\ RecordPath(a) \in DOMAIN fs /\ fs[RecordPath(a)].entries = {a}
    /\ \E call \in log : call.caller = 0

\* C27: when the wrapped function returned, the wrapper returned too and the
\* record written has status completed, however the arguments were passed; a
\* record with status failed exists only for a wrapped function that raised.
C27_OutcomeUnchanged ==
    pc = "Meta" =>
        \A id \in 1..Len(crop_out) :
            /\ crop_out[id].func = "returned" =>
                  /\ crop_out[id].outcome = "returned"
                  /\ RecordPath(id) \in DOMAIN fs
                  /\ fs[RecordPath(id)].status = "completed"
            /\ (RecordPath(id) \in DOMAIN fs /\ fs[RecordPath(id)].status = "failed")
                  => crop_out[id].func = "raised"

(* ------------------ the batch driver's main, SpecBatch ----------------- *)
\* src/GenerateInputs/generateInputs.py.  In SpecBatch the variables hold:
\* inv the CSV (for every data row whether its lat/lon parse as floats; a row
\* is identified by its position, counted from 1), depth the loop index i,
\* crop_out the list results, mesh the local variable dem_file (0: not bound;
\* k: the file downloaded for row k), log the coordinates used to name each
\* folder and to process it.
MaxRows == 3

\* csv_utils.py lines 38-53: the positions of the rows whose lat/lon parse
RECURSIVE load_coordinates_from_csv(_)
load_coordinates_from_csv(rows) ==
    IF rows = <<>> THEN <<>>
    ELSE LET coordinates == load_coordinates_from_csv(Front(rows))
         IN  IF Last(rows) THEN Append(coordinates, Len(rows)) ELSE coordinates

\* csv_utils.py lines 55-62 (index counted from 0); 0 stands for ValueError
get_coordinate_by_index(rows, index) ==
    LET coordinates == load_coordinates_from_csv(rows)
    IN  IF index >= Len(coordinates) THEN 0 ELSE coordinates[index + 1]

\* process_config.py lines 74-90: rows[row_index]; 0 stands for ValueError
ProcessConfig_load_coordinates_from_csv(rows, row_index) ==
    IF row_index >= Len(rows) THEN 0
    ELSE IF rows[row_index + 1] THEN row_index + 1 ELSE 0

\* generateInputs.py line 84: locals().get('dem_file', None) reads the local
\* variable as the last assignment left it
DemOfFailedRow(dem_file) == dem_file

CsvFiles == UNION {[1..n -> BOOLEAN] : n \in 1..MaxRows}

InitBatch ==
    /\ pc = "Batch"
    /\ inv \in {[entry |-> "main", rows |-> rows] : rows \in CsvFiles}
    /\ fs = <<>>
    /\ log = <<>>
    /\ utm_dem_path = <<>>
    /\ depth = 0
    /\ crop_in = NoGeo
    /\ crop_out = <<>>
    /\ elevation_data = NoGrid
    /\ mesh = 0
    /\ error = "none"

\* lines 30-85: one pass of the loop body for row i = depth.  download_ok,
\* folder_exists and process_ok are what the network, the disk and the
\* terrain processing answer; the download looks its coordinates up with
\* get_coordinate_by_index (dem_downloader.py lines 70-73) and raises when
\* that raises.
RowIteration ==
    /\ pc = "Batch"
    /\ depth < Len(inv.rows)
    /\ \E download_ok \in BOOLEAN, folder_exists \in BOOLEAN, process_ok \in BOOLEAN :
          LET i        == depth
              dem_file == IF download_ok THEN i + 1 ELSE mesh
              named    == get_coordinate_by_index(inv.rows, i)
              used     == ProcessConfig_load_coordinates_from_csv(inv.rows, i)
              failed   == [i |-> i, dem |-> DemOfFailedRow(dem_file), stl |-> "None"]
          IN  /\ mesh' = dem_file
              /\ (named = 0 => ~download_ok)
              /\ IF ~download_ok
                 THEN /\ ~folder_exists /\ ~process_ok
                      /\ crop_out' = Append(crop_out, failed)
                      /\ log' = log
                 ELSE IF folder_exists
                 THEN /\ ~process_ok
                      /\ crop_out' = Append(crop_out, [i |-> i, dem |-> dem_file,
                                                       stl |-> "skipped"])
                      /\ log' = log
                 ELSE /\ log' = Append(log, [i |-> i, folder |-> named, processed |-> used])
                      /\ (used = 0 => ~process_ok)
                      /\ crop_out' = Append(crop_out,
                                            IF process_ok
                                            THEN [i |-> i, dem |-> dem_file, stl |-> "stl"]
                                            ELSE failed)
    /\ depth' = depth + 1
    /\ UNCHANGED <<pc, inv, fs, utm_dem_path, crop_in, elevation_data, error>>

\* line 91: return results
BatchReturn ==
    /\ pc = "Batch"
    /\ depth = Len(inv.rows)
    /\ pc' = "BatchReturned"
    /\ UNCHANGED <<inv, fs, log, utm_dem_path, depth, crop_in, crop_out, elevation_data, mesh, error>>

NextBatch == RowIteration \/ BatchReturn
SpecBatch == InitBatch /\ [][NextBatch]_vars

\* C28: when main returns, results holds one entry per row, in row order, a
\* failed row does not stop the rows after it, and the DEM recorded for a
\* failed row is the file downloaded for that row or None.
C28_ResultsPerRow ==
    pc = "BatchReturned" =>
        /\ Len(crop_out) = Len(inv.rows)
        /\ \A k \in 1..Len(crop_out) :
              /\ crop_out[k].i = k - 1
              /\ crop_out[k].stl = "None" => crop_out[k].dem \in {0, k}

\* C29: for every row i whose folder is created, the coordinates naming the
\* folder are those of CSV row i, and the coordinates the processing loads
\* are those of the same row.
C29_SameRowCoordinates ==
    pc \in {"Batch", "BatchReturned"} =>
        \A k \in 1..Len(log) :
            /\ log[k].folder = log[k].i + 1
            /\ log[k].processed = log[k].folder

(* --------------- two invocations on one disk, SpecWorkers -------------- *)
\* create_rotated_stl_from_dem run by two workers at once.  In SpecWorkers
\* the variables hold, for every worker: inv the arguments, depth the position
\* in the function, log the set of paths read or written so far,
\* utm_dem_path the raster handed to the crop, elevation_data the raster
\* content the crop read; fs is the disk they share.  The content of a file
\* is its kind and the source raster its data come from.
Workers == {"w1", "w2"}

Content(kind, of) == [kind |-> kind, of |-> of]
NoContent == Content("none", <<>>)

\* the source rasters on disk: two geographic ones and a projected one
SourceDisk ==
    [d \in DemPaths |->
        Content(IF d = <<"data/", "site", "_utm", ".tif">> THEN "projected" ELSE "EPSG:4326", d)]

WorkerArgs ==
    [dem_path : DemPaths, folder : OutFolders, intermediate_save : BOOLEAN]

\* lines 224-230, geo_utils.py lines 54-57: where worker w writes the
\* reprojected raster
WorkerUtmPath(w) ==
    IF inv[w].intermediate_save THEN UtmPathSaved(inv[w].dem_path)
    ELSE UtmPathDefault(inv[w].dem_path)

\* process_dem line 383
WorkerStl(w) == RawStlPath(inv[w].folder, 45)

Touch(w, paths) == [log EXCEPT ![w] = @ \cup paths]

InitWorkers ==
    /\ pc = "Workers"
    /\ inv \in [Workers -> WorkerArgs]
    /\ fs = SourceDisk
    /\ log = [w \in Workers |-> {}]
    /\ utm_dem_path = [w \in Workers |-> <<>>]
    /\ depth = [w \in Workers |-> "start"]
    /\ crop_in = NoGeo
    /\ crop_out = NoCrop
    /\ elevation_data = [w \in Workers |-> NoContent]
    /\ mesh = {}
    /\ error = "none"

\* lines 221-234: rasterio.open(dem_path) and the test of its CRS
WorkerOpen(w) ==
    /\ pc = "Workers" /\ depth[w] = "start"
    /\ log' = Touch(w, {inv[w].dem_path})
    /\ IF fs[inv[w].dem_path].kind \in {"EPSG:4326", "geographic"}
       THEN /\ depth' = [depth EXCEPT ![w] = "reproject"]
            /\ UNCHANGED utm_dem_path
       ELSE IF fs[inv[w].dem_path].kind = "projected"
       THEN /\ depth' = [depth EXCEPT ![w] = "crop"]
            /\ utm_dem_path' = [utm_dem_path EXCEPT ![w] = inv[w].dem_path]
       ELSE /\ depth' = [depth EXCEPT ![w] = "raised"]
            /\ UNCHANGED utm_dem_path
    /\ UNCHANGED <<pc, inv, fs, crop_in, crop_out, elevation_data, mesh, error>>

\* geo_utils.py line 60: rasterio.open(output_path, 'w') creates or truncates
\* the file
WorkerReprojectBegin(w) ==
    /\ pc = "Workers" /\ depth[w] = "reproject"
    /\ fs' = WriteFile(fs, WorkerUtmPath(w), Content("partial", inv[w].dem_path))
    /\ log' = Touch(w, {WorkerUtmPath(w)})
    /\ depth' = [depth EXCEPT ![w] = "reprojecting"]
    /\ UNCHANGED <<pc, inv, utm_dem_path, crop_in, crop_out, elevation_data, mesh, error>>

\* geo_utils.py lines 61-71: the band is written and the file closed
WorkerReprojectEnd(w) ==
    /\ pc = "Workers" /\ depth[w] = "reprojecting"
    /\ fs' = WriteFile(fs, WorkerUtmPath(w), Content("projected", inv[w].dem_path))
    /\ utm_dem_path' = [utm_dem_path EXCEPT ![w] = WorkerUtmPath(w)]
    /\ depth' = [depth EXCEPT ![w] = "crop"]
    /\ UNCHANGED <<pc, inv, log, crop_in, crop_out, elevation_data, mesh, error>>

\* lines 236-240: the crop opens and reads utm_dem_path
WorkerCrop(w) ==
    /\ pc = "Workers" /\ depth[w] = "crop"
    /\ log' = Touch(w, {utm_dem_path[w]})
    /\ elevation_data' = [elevation_data EXCEPT ![w] = fs[utm_dem_path[w]]]
    /\ depth' = [depth EXCEPT ![w] = IF fs[utm_dem_path[w]].kind = "projected"
                                     THEN "save" ELSE "raised"]
    /\ UNCHANGED <<pc, inv, fs, utm_dem_path, crop_in, crop_out, mesh, error>>

\* lines 260-262: mesh.save(output_stl)
WorkerSave(w) ==
    /\ pc = "Workers" /\ depth[w] = "save"
    /\ fs' = WriteFile(fs, WorkerStl(w), Content("mesh_raw", elevation_data[w].of))
    /\ log' = Touch(w, {WorkerStl(w)})
    /\ depth' = [depth EXCEPT ![w] = "returned"]
    /\ UNCHANGED <<pc, inv, utm_dem_path, crop_in, crop_out, elevation_data, mesh, error>>

\* meta_data_process.py lines 44-61: the record of the invocation
WorkerRecord(w) ==
    /\ pc = "Workers" /\ depth[w] \in {"returned", "raised"}
    /\ fs' = WriteFile(fs, MetadataPath(WorkerStl(w)),
                       Content(IF depth[w] = "returned" THEN "meta_completed"
                               ELSE "meta_failed", inv[w].dem_path))
    /\ log' = Touch(w, {MetadataPath(WorkerStl(w))})
    /\ depth' = [depth EXCEPT ![w] = IF depth[w] = "returned" THEN "done" ELSE "failed"]
    /\ UNCHANGED <<pc, inv, utm_dem_path, crop_in, crop_out, elevation_data, mesh, error>>

NextWorkers ==
    \E w \in Workers :
        \/ WorkerOpen(w)
        \/ WorkerReprojectBegin(w)
        \/ WorkerReprojectEnd(w)
        \/ WorkerCrop(w)
        \/ WorkerSave(w)
        \/ WorkerRecord(w)

SpecWorkers == InitWorkers /\ [][NextWorkers]_vars

\* the two workers were given different source rasters and different output
\* directories
DisjointArguments ==
    /\ inv["w1"].dem_path # inv["w2"].dem_path
    /\ inv["w1"].folder # inv["w2"].folder

\* C24: two invocations on different source rasters and different output
\* directories read and write disjoint sets of files, none of them fails, and
\* the mesh each one saves is built from its own source raster, whatever the
\* interleaving of their steps.
C24_NoLockingNeeded ==
    (pc = "Workers" /\ DisjointArguments) =>
        /\ log["w1"] \cap log["w2"] = {}
        /\ \A w \in Workers :
              /\ depth[w] \notin {"raised", "failed"}
              /\ depth[w] = "done" =>
                    /\ WorkerStl(w) \in DOMAIN fs
                    /\ fs[WorkerStl(w)] = Content("mesh_raw", inv[w].dem_path)

====
